---- MODULE Spec2Model ----
(***************************************************************************)
(* Model of rust/main/chains/hyperlane-cosmos/src/providers/cosmos/        *)
(* provider.rs: the CosmosProvider transaction / block decoder.            *)
(*                                                                         *)
(* Results of fallible Rust functions are records                          *)
(*   [kind |-> "Ok" | "Err" | "Panic", val |-> <value>, err |-> <message>] *)
(* "Err" is an Err(..) returned through `?`, "Panic" is an abort.          *)
(* U256 / u128 values are little-endian sequences of base-1000 limbs, so   *)
(* that the real ATTO_EXPONENT of 18 can be used.                          *)
(***************************************************************************)
EXTENDS Integers, Sequences, FiniteSets, TLC

VARIABLES conf, pc, op, hash, response, tx, arg, result, steps

vars == <<conf, pc, op, hash, response, tx, arg, result, steps>>

-----------------------------------------------------------------------------
(* Bounds of the model *)

MaxSignerInfos == 2
MaxMessages == 2
MaxCoins == 2

SeqsUpTo(S, n) == UNION {[1..k -> S] : k \in 0..n}

-----------------------------------------------------------------------------
(* Result values *)

Ok(v) == [kind |-> "Ok", val |-> v, err |-> ""]
Err(e) == [kind |-> "Err", val |-> <<>>, err |-> e]
Panic(e) == [kind |-> "Panic", val |-> <<>>, err |-> e]
NoResult == [kind |-> "None", val |-> <<>>, err |-> ""]

IsOk(r) == r.kind = "Ok"
IsErr(r) == r.kind = "Err"
IsPanic(r) == r.kind = "Panic"

\* the `?` operator: the value of an Ok goes on to F, anything else is returned
Try(r, F(_)) == IF IsOk(r) THEN F(r.val) ELSE r

-----------------------------------------------------------------------------
(* Unsigned big integers: little-endian sequences of base-1000 limbs, no   *)
(* leading zero limbs                                                      *)

Base == 10 * 10 * 10

RECURSIVE Reverse(_)
Reverse(s) == IF s = <<>> THEN <<>> ELSE Append(Reverse(Tail(s)), Head(s))

\* a decimal literal written in groups of three digits, most significant first
Dec(s) == Reverse(s)

RECURSIVE Trim(_)
Trim(s) ==
    IF s = <<>> THEN s
    ELSE IF s[Len(s)] = 0 THEN Trim(SubSeq(s, 1, Len(s) - 1)) ELSE s

RECURSIVE FromNat(_)
FromNat(n) == IF n = 0 THEN <<>> ELSE <<n % Base>> \o FromNat(n \div Base)

Zero == <<>>
One == <<1>>

RECURSIVE AddCarry(_, _, _)
AddCarry(a, b, c) ==
    IF a = <<>> /\ b = <<>> THEN (IF c = 0 THEN <<>> ELSE <<c>>)
    ELSE LET x == IF a = <<>> THEN 0 ELSE Head(a)
             y == IF b = <<>> THEN 0 ELSE Head(b)
             t == x + y + c
             ra == IF a = <<>> THEN <<>> ELSE Tail(a)
             rb == IF b = <<>> THEN <<>> ELSE Tail(b)
         IN  <<t % Base>> \o AddCarry(ra, rb, t \div Base)

BigAdd(a, b) == AddCarry(a, b, 0)

RECURSIVE MulLimb(_, _, _)
MulLimb(a, d, c) ==
    IF a = <<>> THEN (IF c = 0 THEN <<>> ELSE <<c>>)
    ELSE LET t == Head(a) * d + c
         IN  <<t % Base>> \o MulLimb(Tail(a), d, t \div Base)

RECURSIVE BigMul(_, _)
BigMul(a, b) ==
    IF a = <<>> \/ b = <<>> THEN <<>>
    ELSE Trim(BigAdd(Trim(MulLimb(a, Head(b), 0)), <<0>> \o BigMul(a, Tail(b))))

RECURSIVE BigCmpFrom(_, _, _)
\* compares equal-length a and b from limb i downwards: -1, 0, 1
BigCmpFrom(a, b, i) ==
    IF i = 0 THEN 0
    ELSE IF a[i] < b[i] THEN -1
    ELSE IF a[i] > b[i] THEN 1
    ELSE BigCmpFrom(a, b, i - 1)

BigCmp(a, b) ==
    IF Len(a) < Len(b) THEN -1
    ELSE IF Len(a) > Len(b) THEN 1
    ELSE BigCmpFrom(a, b, Len(a))

BigLeq(a, b) == BigCmp(a, b) <= 0
BigLess(a, b) == BigCmp(a, b) < 0

RECURSIVE DivRem(_, _)
\* long division of a by the positive integer g (g * Base fits an integer)
DivRem(a, g) ==
    IF a = <<>> THEN [q |-> <<>>, r |-> 0]
    ELSE LET hi == DivRem(Tail(a), g)
             cur == hi.r * Base + Head(a)
         IN  [q |-> <<cur \div g>> \o hi.q, r |-> cur % g]

\* 10^n
Pow10(n) ==
    [i \in 1..(n \div 3) |-> 0]
    \o << IF n % 3 = 0 THEN 1 ELSE IF n % 3 = 1 THEN 10 ELSE 100 >>

\* the decimal digits of a, least significant first, no leading zeros
Digits(a) ==
    Trim([i \in 1..(3 * Len(a)) |->
            LET limb == a[((i - 1) \div 3) + 1]
                k == (i - 1) % 3
            IN  IF k = 0 THEN limb % 10
                ELSE IF k = 1 THEN (limb \div 10) % 10
                ELSE limb \div 100])

U128_MAX ==
    Dec(<<340, 282, 366, 920, 938, 463, 463, 374, 607, 431, 768, 211, 455>>)

U256_MAX ==
    Dec(<<115, 792, 89, 237, 316, 195, 423, 570, 985, 8, 687, 907, 853, 269,
          984, 665, 640, 564, 39, 457, 584, 7, 913, 129, 639, 935>>)

\* U256 `+`, `*` and `/` of the uint crate: overflow and a zero divisor panic
U256Add(a, b) ==
    LET s == BigAdd(a, b)
    IN  IF BigLeq(s, U256_MAX) THEN Ok(s)
        ELSE Panic("arithmetic operation overflow")

U256Mul(a, b) ==
    LET p == BigMul(a, b)
    IN  IF BigLeq(p, U256_MAX) THEN Ok(p)
        ELSE Panic("arithmetic operation overflow")

\* the divisor is a u64 held as an integer
U256Div(a, g) ==
    IF g = 0 THEN Panic("division by zero")
    ELSE Ok(Trim(DivRem(a, g).q))

-----------------------------------------------------------------------------
(* Program constants *)

ATTO_EXPONENT == 18

INJECTIVE_PUBLIC_KEY_TYPE_URL == "/injective.crypto.v1beta1.ethsecp256k1.PubKey"
ED25519_TYPE_URL == "/cosmos.crypto.ed25519.PubKey"
SECP256K1_TYPE_URL == "/cosmos.crypto.secp256k1.PubKey"
MSG_EXECUTE_CONTRACT_TYPE_URL == "/cosmwasm.wasm.v1.MsgExecuteContract"

-----------------------------------------------------------------------------
(* Public keys, accounts and addresses *)

\* SignerInfo.public_key: Option<SignerPublicKey>. `key` is the identity of the
\* key material, 0 when the wrapped bytes are not a valid key.
NoKey == [variant |-> "None", type_url |-> "", curve |-> "", key |-> 0]
Single(curve, k) ==
    [variant |-> "Single", type_url |-> "", curve |-> curve, key |-> k]
LegacyAminoMultisig ==
    [variant |-> "LegacyAminoMultisig", type_url |-> "", curve |-> "", key |-> 0]
AnyKey(url, k) ==
    [variant |-> "Any", type_url |-> url,
     curve |-> IF url = ED25519_TYPE_URL THEN "ed25519" ELSE "secp256k1",
     key |-> k]

\* CosmosAccountId::account_id_from_pubkey: one account per (curve, key, style)
account_id_from_pubkey(public_key, account_address_type) ==
    IF public_key.key = 0
    THEN Err("PublicKeyError: invalid public key")
    ELSE Ok(public_key.key * 4
            + (IF public_key.curve = "ed25519" THEN 2 ELSE 0)
            + (IF account_address_type = "Ethereum" THEN 1 ELSE 0))

\* CosmosAddress::from_account_id(a).digest() and H256::try_from(CosmosAccountId):
\* the account bytes left-padded to 32 bytes; LongAccount stands for an account
\* id of more than 32 bytes, which has no H256 form
LongAccount == 99
H256FromAccount(a) ==
    IF a = LongAccount
    THEN Err("AddressError: account id longer than 32 bytes")
    ELSE Ok([h256 |-> a])

normalize_public_key(signer_public_key) ==
    IF signer_public_key.variant = "Single"
    THEN Ok(<<signer_public_key, "Bitcoin">>)
    ELSE IF signer_public_key.variant = "LegacyAminoMultisig"
    THEN Ok(<<signer_public_key, "Bitcoin">>)
    ELSE \* SignerPublicKey::Any
      IF /\ signer_public_key.type_url /= ED25519_TYPE_URL
         /\ signer_public_key.type_url /= SECP256K1_TYPE_URL
         /\ signer_public_key.type_url /= INJECTIVE_PUBLIC_KEY_TYPE_URL
      THEN Err("PublicKeyError: can only normalize public keys with a known TYPE_URL")
      ELSE IF signer_public_key.type_url = INJECTIVE_PUBLIC_KEY_TYPE_URL
      THEN IF signer_public_key.key = 0
           THEN Err("PublicKeyError: cannot decode or decompress public key")
           ELSE Ok(<<Single("secp256k1", signer_public_key.key), "Ethereum">>)
      ELSE IF signer_public_key.key = 0
           THEN Err("cosmrs: invalid public key bytes")
           ELSE Ok(<<Single(signer_public_key.curve, signer_public_key.key),
                     "Bitcoin">>)

\* PublicKey::try_from(SignerPublicKey): only the Single variant converts
PublicKeyTryFrom(key) ==
    IF key.variant = "Single" THEN Ok(key)
    ELSE Err("cosmrs: multisig and Any keys are not a single public key")

convert_signer_info_into_account_id_and_nonce(signer_info) ==
    IF signer_info.public_key.variant = "None"
    THEN Err("PublicKeyError: no public key for default signer")
    ELSE Try(normalize_public_key(signer_info.public_key), LAMBDA n :
         Try(PublicKeyTryFrom(n[1]), LAMBDA public_key :
           Try(account_id_from_pubkey(public_key, n[2]), LAMBDA account_id :
             Ok(<<account_id, signer_info.sequence>>))))

-----------------------------------------------------------------------------
(* search_payer_in_signer_infos and its iterator adaptors *)

\* signer_infos.iter().map(|si| self.convert_signer_info_into_account_id_and_nonce(si))
convert_signer_infos(signer_infos) ==
    [i \in 1..Len(signer_infos) |->
        convert_signer_info_into_account_id_and_nonce(signer_infos[i])]

\* Itertools::filter_ok(|(a, s)| payer == a): keeps every Err, and the Ok
\* values whose account is the payer
filter_ok(results, payer) ==
    SelectSeq(results, LAMBDA r : IsErr(r) \/ payer = r.val[1])

\* Itertools::find_or_first with the closure of lines 86-89: the first Ok
\* element whose account is the payer, else the first element, else None; the
\* Option is a sequence of length 0 or 1
find_or_first(results, payer) ==
    LET hits == SelectSeq(results,
                          LAMBDA r : IF IsOk(r) THEN payer = r.val[1] ELSE FALSE)
    IN  IF hits /= <<>> THEN <<Head(hits)>>
        ELSE IF results /= <<>> THEN <<Head(results)>>
        ELSE <<>>

\* Option::unwrap_or_else
unwrap_or_else(o, default) == IF o = <<>> THEN default ELSE o[1]

\* Iterator::next on a fresh iterator, used by the variants below
first_of(s) == IF s = <<>> THEN <<>> ELSE <<Head(s)>>

\* variant: takes the first entry (`.next()`) instead of searching for the payer
search_payer_first_entry(signer_infos, payer) ==
    unwrap_or_else(first_of(convert_signer_infos(signer_infos)),
                   Err("no signer info"))

\* variant: the filter_ok adaptor is missing
search_payer_unfiltered(signer_infos, payer) ==
    unwrap_or_else(find_or_first(convert_signer_infos(signer_infos), payer),
                   Err("no signer info"))

search_payer_in_signer_infos(signer_infos, payer) ==
    unwrap_or_else(
        find_or_first(filter_ok(convert_signer_infos(signer_infos), payer),
                      payer),
        Err("no signer info"))

\* Fee.payer: Option<AccountId>; 0 is None
NoPayer == 0

\* variant: without a payer, the first signer info that resolves is used
sender_and_nonce_first_resolvable(t) ==
    Try(IF t.payer /= NoPayer
        THEN search_payer_in_signer_infos(t.signer_infos, t.payer)
        ELSE unwrap_or_else(
                 first_of(SelectSeq(convert_signer_infos(t.signer_infos), IsOk)),
                 Err("SignerInfoError: no signer info in default signer")),
        LAMBDA an :
          Try(H256FromAccount(an[1]), LAMBDA a : Ok(<<a, an[2]>>)))

sender_and_nonce(t) ==
    Try(IF t.payer /= NoPayer
        THEN search_payer_in_signer_infos(t.signer_infos, t.payer)
        ELSE IF t.signer_infos = <<>>
             THEN Err("SignerInfoError: no signer info in default signer")
             ELSE convert_signer_info_into_account_id_and_nonce(
                      t.signer_infos[1]),
        LAMBDA an :
          Try(H256FromAccount(an[1]), LAMBDA a : Ok(<<a, an[2]>>)))

-----------------------------------------------------------------------------
(* Contract extraction *)

\* body.messages entries: Any {type_url, value}. `wire` tells how the value
\* decodes: "ok" (a MsgExecuteContract whose contract field is `contract`),
\* "garbage" (not a protobuf MsgExecuteContract), "bad_address" (the contract
\* field is no account id)
Msg(url, wire, c) == [type_url |-> url, wire |-> wire, contract |-> c]

\* variant: several contract execution messages only warn and the first is indexed
contract_first_of_many(t, tx_hash) ==
    LET contract_execution_messages ==
            SelectSeq(t.messages,
                      LAMBDA a : a.type_url = MSG_EXECUTE_CONTRACT_TYPE_URL)
    IN  IF contract_execution_messages = <<>>
        THEN Err("could not find contract execution message")
        ELSE LET any == contract_execution_messages[1]
             IN  IF any.wire = "garbage"
                 THEN Err("cosmrs: cannot decode MsgExecuteContract")
                 ELSE IF any.wire = "bad_address"
                 THEN Err("cosmrs: invalid contract account id")
                 ELSE H256FromAccount(any.contract)

contract(t, tx_hash) ==
    LET contract_execution_messages ==
            SelectSeq(t.messages,
                      LAMBDA a : a.type_url = MSG_EXECUTE_CONTRACT_TYPE_URL)
    IN  IF Len(contract_execution_messages) > 1
        THEN Err("CustomError: transaction contains multiple contract execution messages")
        ELSE IF contract_execution_messages = <<>>
        THEN Err("could not find contract execution message")
        ELSE LET any == contract_execution_messages[1]
             IN  IF any.wire = "garbage"
                 THEN Err("cosmrs: cannot decode MsgExecuteContract")
                 ELSE IF any.wire = "bad_address"
                 THEN Err("cosmrs: invalid contract account id")
                 ELSE H256FromAccount(any.contract)

-----------------------------------------------------------------------------
(* Fees *)

Coin(denom, amount) == [denom |-> denom, amount |-> amount]

RECURSIVE JoinDenoms(_)
\* fold("", |acc, denom| acc + ", " + denom), as the sequence of pieces
JoinDenoms(coins) ==
    IF coins = <<>> THEN <<>>
    ELSE <<", ", Head(coins).denom>> \o JoinDenoms(Tail(coins))

report_unsupported_denominations(t, tx_hash) ==
    LET supported_denomination == conf.minimum_gas_price_denom
        unsupported_denominations ==
            JoinDenoms(SelectSeq(t.fee_amount,
                                 LAMBDA c : c.denom /= supported_denomination))
    IN  IF unsupported_denominations /= <<>>
        THEN Err("CustomError: transaction contains fees in unsupported denominations")
        ELSE Ok(<<>>)

\* 10u128.pow(ATTO_EXPONENT - native_token.decimals). The u32 subtraction
\* underflows when decimals > 18: with overflow checks the build panics,
\* without them the exponent wraps to 2^32 + 18 - decimals (at least 128 for
\* every decimals of the model) and the wrapping power 10^exponent mod 2^128
\* is 0.
Coefficient(decimals) ==
    IF decimals <= ATTO_EXPONENT THEN Ok(Pow10(ATTO_EXPONENT - decimals))
    ELSE IF conf.overflow_checks
    THEN Panic("attempt to subtract with overflow")
    ELSE Ok(Zero)

\* variant: scales by 10^decimals instead of 10^(18 - decimals)
convert_fee_wrong_exponent(coin) ==
    IF coin.denom /= conf.native_denom THEN Ok(Zero)
    ELSE U256Mul(coin.amount, Pow10(conf.native_decimals))

convert_fee(coin) ==
    IF coin.denom /= conf.native_denom THEN Ok(Zero)
    ELSE Try(Coefficient(conf.native_decimals), LAMBDA coefficient :
             U256Mul(coin.amount, coefficient))

RECURSIVE FoldFee(_, _)
\* .map(|c| self.convert_fee(c)).fold(U256::zero(), |acc, v| acc + v)
FoldFee(acc, coins) ==
    IF coins = <<>> THEN Ok(acc)
    ELSE Try(convert_fee(Head(coins)), LAMBDA v :
           Try(U256Add(acc, v), LAMBDA s : FoldFee(s, Tail(coins))))

-----------------------------------------------------------------------------
(* HyperlaneProvider *)

Out(r, done) == [res |-> r, steps |-> done]
PrependStep(step, out) == Out(out.res, <<step>> \o out.steps)

\* get_block_by_hash after the rpc response arrived. resp.time is the header
\* time in unix seconds, not before 1970, so that `as u64` keeps its value
get_block_by_hash(h, resp) ==
    LET received_hash == resp.hash
    IN  IF received_hash /= h
        THEN Out(Err("received incorrect block"), <<"hash_check">>)
        ELSE IF ~resp.has_block
        THEN Out(Err("empty block info for block"), <<"hash_check", "block">>)
        ELSE Out(Ok([hash |-> h,
                     timestamp |-> resp.time,
                     number |-> resp.height]),
                 <<"hash_check", "block">>)

\* variant: the sender is resolved before the contract is extracted
TxnChecks_sender_first(t, h) ==
    << [step |-> "sender_and_nonce", res |-> sender_and_nonce(t)],
       [step |-> "contract", res |-> contract(t, h)],
       [step |-> "report_unsupported_denominations",
        res |-> report_unsupported_denominations(t, h)] >>

\* the three `?` calls of get_txn_by_hash on the decoded Tx, in program order
TxnChecks(t, h) ==
    << [step |-> "contract", res |-> contract(t, h)],
       [step |-> "sender_and_nonce", res |-> sender_and_nonce(t)],
       [step |-> "report_unsupported_denominations",
        res |-> report_unsupported_denominations(t, h)] >>

\* index of the first check that does not return Ok, 0 when all do
FirstFailure(checks) ==
    IF \E i \in 1..Len(checks) : ~IsOk(checks[i].res)
    THEN CHOOSE i \in 1..Len(checks) :
             /\ ~IsOk(checks[i].res)
             /\ \A j \in 1..(i - 1) : IsOk(checks[j].res)
    ELSE 0

StepsUpTo(checks, n) == [i \in 1..n |-> checks[i].step]

\* variant: the zero quotient is returned as it is
GasPrice_unguarded(fee, gas_limit) == U256Div(fee, gas_limit)

\* fee / gas_limit, a zero quotient replaced by one
GasPrice(fee, gas_limit) ==
    Try(U256Div(fee, gas_limit), LAMBDA gas_price :
        IF gas_price = Zero THEN Ok(One) ELSE Ok(gas_price))

AllSteps == <<"from_bytes", "contract", "sender_and_nonce",
              "report_unsupported_denominations", "gas_price">>

\* the TxnInfo built from the results of the checks and the gas price
TxnInfo(h, resp, recipient, sender_nonce, gas_price) ==
    [hash |-> h,
     gas_limit |-> FromNat(resp.gas_wanted),
     max_priority_fee_per_gas |-> "None",
     max_fee_per_gas |-> "None",
     gas_price |-> gas_price,
     nonce |-> sender_nonce[2],
     sender |-> sender_nonce[1],
     recipient |-> recipient,
     receipt |-> [gas_used |-> FromNat(resp.gas_used),
                  cumulative_gas_used |-> FromNat(resp.gas_used),
                  effective_gas_price |-> gas_price]]

\* the gas price computation and the construction of the TxnInfo
Assemble(h, resp, checks, fee) ==
    Try(fee, LAMBDA f :
      Try(GasPrice(f, resp.tx.gas_limit), LAMBDA gas_price :
        Ok(TxnInfo(h, resp, checks[1].res.val, checks[2].res.val, gas_price))))

\* the checks run in order and the first failure returns
RunChecks(h, resp, checks, failed) ==
    IF failed /= 0
    THEN Out(checks[failed].res, <<"from_bytes">> \o StepsUpTo(checks, failed))
    ELSE Out(Assemble(h, resp, checks, FoldFee(Zero, resp.tx.fee_amount)),
             AllSteps)

FirstFailureOf(h, resp, checks) ==
    RunChecks(h, resp, checks, FirstFailure(checks))

\* get_txn_by_hash from Tx::from_bytes on
decode_txn(h, resp) ==
    IF ~resp.decodes
    THEN Out(Err("cosmrs: cannot decode transaction bytes"), <<"from_bytes">>)
    ELSE FirstFailureOf(h, resp, TxnChecks(resp.tx, h))

\* variant: the received hash is not compared with the requested one
get_txn_by_hash_unverified(h, resp) ==
    PrependStep("hash_check", decode_txn(h, resp))

\* get_txn_by_hash after the rpc response arrived
get_txn_by_hash(h, resp) ==
    LET received_hash == resp.hash
    IN  IF received_hash /= h
        THEN Out(Err("received incorrect transaction"), <<"hash_check">>)
        ELSE PrependStep("hash_check", decode_txn(h, resp))

-----------------------------------------------------------------------------
(* Input universes *)

SignerInfo(pk, seq) == [public_key |-> pk, sequence |-> seq]

MkTx(msgs, sis, payer, coins, gas) ==
    [messages |-> msgs, signer_infos |-> sis, payer |-> payer,
     fee_amount |-> coins, gas_limit |-> gas]

EmptyTx == MkTx(<<>>, <<>>, NoPayer, <<>>, 0)

MkConf(native, decimals, min_gas, checks) ==
    [native_denom |-> native, native_decimals |-> decimals,
     minimum_gas_price_denom |-> min_gas, overflow_checks |-> checks]

NoResponse == [hash |-> 0]
Hashes == {101, 102}

Key1 == Single("secp256k1", 1)
Key2 == Single("secp256k1", 2)
Account1 == account_id_from_pubkey(Key1, "Bitcoin").val
Account2 == account_id_from_pubkey(Key2, "Bitcoin").val
EthAccount1 == account_id_from_pubkey(Key1, "Ethereum").val
AbsentAccount == account_id_from_pubkey(Single("ed25519", 3), "Bitcoin").val

\* signer resolution
SenderKeys ==
    {NoKey, Key1, Key2, LegacyAminoMultisig,
     AnyKey(SECP256K1_TYPE_URL, 1), AnyKey(ED25519_TYPE_URL, 1),
     AnyKey(INJECTIVE_PUBLIC_KEY_TYPE_URL, 1), AnyKey(SECP256K1_TYPE_URL, 0),
     AnyKey("/unknown.PubKey", 1)}
SenderSequences == {5, 7}
SenderSignerInfos == {SignerInfo(k, n) : k \in SenderKeys, n \in SenderSequences}
SenderPayers == {NoPayer, Account1, Account2, EthAccount1, AbsentAccount}
SenderTxs ==
    {MkTx(<<>>, sis, p, <<>>, 0) :
        sis \in SeqsUpTo(SenderSignerInfos, MaxSignerInfos), p \in SenderPayers}

\* contract extraction
ContractMessages ==
    {Msg(MSG_EXECUTE_CONTRACT_TYPE_URL, "ok", 41),
     Msg(MSG_EXECUTE_CONTRACT_TYPE_URL, "ok", 42),
     Msg(MSG_EXECUTE_CONTRACT_TYPE_URL, "ok", LongAccount),
     Msg(MSG_EXECUTE_CONTRACT_TYPE_URL, "garbage", 0),
     Msg(MSG_EXECUTE_CONTRACT_TYPE_URL, "bad_address", 0),
     Msg("/cosmos.bank.v1beta1.MsgSend", "ok", 43),
     Msg("/cosmwasm.wasm.v1.MsgInstantiateContract", "ok", 41)}
ContractTxs ==
    {MkTx(ms, <<>>, NoPayer, <<>>, 0) :
        ms \in SeqsUpTo(ContractMessages, MaxMessages)}

\* fees
FeeAmounts == {Zero, One, FromNat(1000000), U128_MAX}
FeeDenoms == {"untrn", "uatom"}
FeeCoins == {Coin(d, a) : d \in FeeDenoms, a \in FeeAmounts}
FeeTxs ==
    {MkTx(<<>>, <<>>, NoPayer, cs, 0) : cs \in SeqsUpTo(FeeCoins, MaxCoins)}
FeeConfs ==
    {MkConf("untrn", d, m, TRUE) : d \in {0, 6, 18, 19}, m \in FeeDenoms}
    \cup {MkConf("untrn", 19, m, FALSE) : m \in FeeDenoms}

\* whole transactions for get_txn_by_hash
TxnMessages ==
    {Msg(MSG_EXECUTE_CONTRACT_TYPE_URL, "ok", 41),
     Msg("/cosmos.bank.v1beta1.MsgSend", "ok", 43)}
TxnSignerInfos == {SignerInfo(NoKey, 5), SignerInfo(Key1, 7)}
TxnPayers == {NoPayer, Account1}
TxnCoins == {Coin("untrn", FromNat(1000000)), Coin("uatom", FromNat(5))}
TxnGasLimits == {0, 100, 300000}
TxnTxs ==
    {MkTx(ms, sis, p, cs, g) :
        ms \in SeqsUpTo(TxnMessages, MaxMessages),
        sis \in SeqsUpTo(TxnSignerInfos, MaxSignerInfos),
        p \in TxnPayers,
        cs \in SeqsUpTo(TxnCoins, MaxCoins),
        g \in TxnGasLimits}
TxnConfs ==
    {MkConf("untrn", 6, "untrn", TRUE), MkConf("untrn", 18, "untrn", TRUE),
     MkConf("untrn", 6, "uatom", TRUE)}

TxResponse(h, decodes, t) ==
    [hash |-> h, decodes |-> decodes, tx |-> t,
     gas_wanted |-> 150000, gas_used |-> 90000]
TxResponses ==
    {TxResponse(h, TRUE, t) : h \in Hashes, t \in TxnTxs}
    \cup {TxResponse(h, FALSE, EmptyTx) : h \in Hashes}

BlockResponse(h, has_block, time, height) ==
    [hash |-> h, has_block |-> has_block, time |-> time, height |-> height]
BlockResponses ==
    {BlockResponse(h, TRUE, t, n) : h \in Hashes, t \in {0, 1700000000}, n \in {1, 7}}
    \cup {BlockResponse(h, FALSE, 0, 0) : h \in Hashes}

-----------------------------------------------------------------------------
(* The provider: get_txn_by_hash and get_block_by_hash around the rpc await *)

Init ==
    /\ conf \in TxnConfs
    /\ pc = "idle"
    /\ op = ""
    /\ hash = 0
    /\ response = NoResponse
    /\ tx = EmptyTx
    /\ arg = 0
    /\ result = NoResult
    /\ steps = <<>>

CallGetTxnByHash ==
    /\ pc = "idle"
    /\ \E h \in Hashes : hash' = h
    /\ op' = "get_txn_by_hash"
    /\ pc' = "awaiting_rpc"
    /\ UNCHANGED <<conf, response, tx, arg, result, steps>>

CallGetBlockByHash ==
    /\ pc = "idle"
    /\ \E h \in Hashes : hash' = h
    /\ op' = "get_block_by_hash"
    /\ pc' = "awaiting_rpc"
    /\ UNCHANGED <<conf, response, tx, arg, result, steps>>

\* rpc_client.get_tx_by_hash(..).await returns Ok(response)
RpcTxResponse ==
    /\ pc = "awaiting_rpc"
    /\ op = "get_txn_by_hash"
    /\ response' \in TxResponses
    /\ pc' = "rpc_returned"
    /\ UNCHANGED <<conf, op, hash, tx, arg, result, steps>>

\* rpc_client.get_block_by_hash(..).await returns Ok(response)
RpcBlockResponse ==
    /\ pc = "awaiting_rpc"
    /\ op = "get_block_by_hash"
    /\ response' \in BlockResponses
    /\ pc' = "rpc_returned"
    /\ UNCHANGED <<conf, op, hash, tx, arg, result, steps>>

\* the awaited rpc call returns Err, which `?` returns to the caller
RpcError ==
    /\ pc = "awaiting_rpc"
    /\ result' = Err("rpc error")
    /\ pc' = "done"
    /\ UNCHANGED <<conf, op, hash, response, tx, arg, steps>>

Return(out) ==
    /\ result' = out.res
    /\ steps' = out.steps
    /\ pc' = "done"
    /\ UNCHANGED <<conf, op, hash, response, arg>>

ResumeGetTxnByHash ==
    /\ pc = "rpc_returned"
    /\ op = "get_txn_by_hash"
    /\ Return(get_txn_by_hash(hash, response))
    /\ tx' = IF response.hash = hash /\ response.decodes THEN response.tx ELSE tx

ResumeGetBlockByHash ==
    /\ pc = "rpc_returned"
    /\ op = "get_block_by_hash"
    /\ Return(get_block_by_hash(hash, response))
    /\ UNCHANGED tx

Next ==
    \/ CallGetTxnByHash
    \/ CallGetBlockByHash
    \/ RpcTxResponse
    \/ RpcBlockResponse
    \/ RpcError
    \/ ResumeGetTxnByHash
    \/ ResumeGetBlockByHash

Spec == Init /\ [][Next]_vars

-----------------------------------------------------------------------------
(* The private helpers applied to drawn inputs *)

InitPure(confs, txs) ==
    /\ conf \in confs
    /\ pc = "ready"
    /\ op = ""
    /\ hash \in Hashes
    /\ response = NoResponse
    /\ tx \in txs
    /\ arg = 0
    /\ result = NoResult
    /\ steps = <<>>

Apply(name, r) ==
    /\ pc = "ready"
    /\ op' = name
    /\ result' = r
    /\ pc' = "done"
    /\ UNCHANGED <<conf, hash, response, tx, steps>>

\* sender resolution
InitSender == InitPure({MkConf("untrn", 6, "untrn", TRUE)}, SenderTxs)

ApplySenderAndNonce ==
    /\ Apply("sender_and_nonce", sender_and_nonce(tx))
    /\ UNCHANGED arg

ApplySearchPayer ==
    /\ tx.payer /= NoPayer
    /\ Apply("search_payer_in_signer_infos",
             search_payer_in_signer_infos(tx.signer_infos, tx.payer))
    /\ UNCHANGED arg

NextSender == ApplySenderAndNonce \/ ApplySearchPayer

SpecSender == InitSender /\ [][NextSender]_vars

\* contract extraction
InitContract == InitPure({MkConf("untrn", 6, "untrn", TRUE)}, ContractTxs)

ApplyContract ==
    /\ Apply("contract", contract(tx, hash))
    /\ UNCHANGED arg

NextContract == ApplyContract

SpecContract == InitContract /\ [][NextContract]_vars

\* fees
InitFee == InitPure(FeeConfs, FeeTxs)

ApplyConvertFee ==
    /\ \E i \in 1..Len(tx.fee_amount) :
          /\ arg' = i
          /\ Apply("convert_fee", convert_fee(tx.fee_amount[i]))

ApplyReportUnsupportedDenominations ==
    /\ Apply("report_unsupported_denominations",
             report_unsupported_denominations(tx, hash))
    /\ UNCHANGED arg

NextFee == ApplyConvertFee \/ ApplyReportUnsupportedDenominations

SpecFee == InitFee /\ [][NextFee]_vars

-----------------------------------------------------------------------------
(* Properties of sender resolution (SpecSender) *)

Derived(k) == convert_signer_info_into_account_id_and_nonce(tx.signer_infos[k])
Matches(k) == IsOk(Derived(k)) /\ Derived(k).val[1] = tx.payer
Entries == 1..Len(tx.signer_infos)
AddressOf(account) == H256FromAccount(account).val
MatchingEntries == {k \in Entries : Matches(k)}
FailingEntries == {k \in Entries : IsErr(Derived(k))}
Least(S) == CHOOSE k \in S : \A j \in S : k <= j

SenderResolved == pc = "done" /\ op = "sender_and_nonce"
PayerSearched == pc = "done" /\ op = "search_payer_in_signer_infos"

\* C1 as stated: if the fee payer equals the account derived from entry k,
\* sender_and_nonce succeeds with the address of entry k and the sequence of
\* entry k, whatever the other entries are (also matching ones included).
C1_PayerPrecedenceAsStated ==
    (SenderResolved /\ tx.payer /= NoPayer) =>
        \A k \in MatchingEntries :
            result = Ok(<<AddressOf(Derived(k).val[1]), tx.signer_infos[k].sequence>>)

\* C1 amended: if the fee payer equals the account derived from entry k,
\* sender_and_nonce succeeds with the address of entry k and the sequence of the
\* first entry in list order that derives to the payer (entry k itself when no
\* earlier entry matches).
C1_PayerPrecedence ==
    (SenderResolved /\ tx.payer /= NoPayer) =>
        \A k \in MatchingEntries :
            result = Ok(<<AddressOf(Derived(k).val[1]),
                          tx.signer_infos[Least(MatchingEntries)].sequence>>)

\* the payer matches an entry that is not first, behind a failing entry
C1_Witness ==
    /\ SenderResolved
    /\ tx.payer /= NoPayer
    /\ Len(tx.signer_infos) >= 2
    /\ IsErr(Derived(1))
    /\ Matches(2)
    /\ result = Ok(<<AddressOf(tx.payer), tx.signer_infos[2].sequence>>)

\* C2 as stated: with a payer that no entry derives to, the search returns the
\* result of the first entry in list order, be it a success or a failure.
C2_PayerFallbackAsStated ==
    (PayerSearched /\ MatchingEntries = {} /\ tx.signer_infos /= <<>>) =>
        result = Derived(1)

\* C2 amended: with a payer that no entry derives to, the search returns the
\* original error of the first entry in list order that failed to resolve;
\* entries that resolved to another account are skipped and never returned, and
\* when no entry failed (or the list is empty) the error is "no signer info".
C2_PayerFallback ==
    (PayerSearched /\ MatchingEntries = {}) =>
        IF FailingEntries /= {}
        THEN result = Derived(Least(FailingEntries))
        ELSE result = Err("no signer info")

\* no match, entry 1 resolved to another account, entry 2 failed
C2_Witness ==
    /\ PayerSearched
    /\ MatchingEntries = {}
    /\ Len(tx.signer_infos) >= 2
    /\ IsOk(Derived(1))
    /\ IsErr(Derived(2))
    /\ result = Derived(2)

\* C3: without a fee payer sender_and_nonce depends on entry 0 alone: its
\* address and sequence when it resolves, its error when it fails (later
\* entries are not tried), and the "no signer info" SignerInfoError when the
\* list is empty.
C3_NoPayerResolution ==
    (SenderResolved /\ tx.payer = NoPayer) =>
        IF tx.signer_infos = <<>>
        THEN result = Err("SignerInfoError: no signer info in default signer")
        ELSE IF IsOk(Derived(1))
        THEN result = Ok(<<AddressOf(Derived(1).val[1]), tx.signer_infos[1].sequence>>)
        ELSE result = Derived(1)

\* no payer, entry 0 fails although the next entry would resolve
C3_Witness ==
    /\ SenderResolved
    /\ tx.payer = NoPayer
    /\ Len(tx.signer_infos) >= 2
    /\ IsErr(Derived(1))
    /\ IsOk(Derived(2))
    /\ result = Derived(1)

-----------------------------------------------------------------------------
(* Properties of contract extraction (SpecContract) *)

ExecutionMessages ==
    {i \in 1..Len(tx.messages) :
        tx.messages[i].type_url = MSG_EXECUTE_CONTRACT_TYPE_URL}
TheExecutionMessage == tx.messages[CHOOSE i \in ExecutionMessages : TRUE]
NoContractMessage == Err("could not find contract execution message")
MultipleContractMessages ==
    Err("CustomError: transaction contains multiple contract execution messages")
ContractExtracted == pc = "done" /\ op = "contract"

\* C4 as stated: exactly one contract execution message yields its contract
\* address as the recipient, none fails with NoContractMessage, two or more
\* fail with MultipleContractMessages.
C4_SingleMessageAsStated ==
    ContractExtracted =>
        IF ExecutionMessages = {} THEN result = NoContractMessage
        ELSE IF Cardinality(ExecutionMessages) >= 2
        THEN result = MultipleContractMessages
        ELSE result = Ok([h256 |-> TheExecutionMessage.contract])

\* C4 amended: none fails with NoContractMessage, two or more fail with
\* MultipleContractMessages, and exactly one yields its contract address as the
\* recipient when its payload decodes to a MsgExecuteContract with a contract
\* account id of at most 32 bytes; when it does not, the decoding error is
\* returned and no recipient is produced.
C4_SingleMessage ==
    ContractExtracted =>
        IF ExecutionMessages = {} THEN result = NoContractMessage
        ELSE IF Cardinality(ExecutionMessages) >= 2
        THEN result = MultipleContractMessages
        ELSE IF /\ TheExecutionMessage.wire = "ok"
                /\ TheExecutionMessage.contract /= LongAccount
        THEN result = Ok([h256 |-> TheExecutionMessage.contract])
        ELSE /\ IsErr(result)
             /\ result /= NoContractMessage
             /\ result /= MultipleContractMessages

\* one execution message behind a message of another type
C4_Witness ==
    /\ ContractExtracted
    /\ Len(tx.messages) >= 2
    /\ ExecutionMessages = {2}
    /\ result = Ok([h256 |-> tx.messages[2].contract])

-----------------------------------------------------------------------------
(* Properties of the fee helpers (SpecFee) *)

\* C6 as stated: report_unsupported_denominations fails exactly when some fee
\* coin is not in the native denomination, the one convert_fee compares with.
C6_UnsupportedDenomination ==
    (pc = "done" /\ op = "report_unsupported_denominations") =>
        (IsErr(result) <=>
            \E i \in 1..Len(tx.fee_amount) :
                tx.fee_amount[i].denom /= conf.native_denom)

\* the decimal digits of a * 10^n
ShiftDecimal(a, n) ==
    IF a = Zero THEN <<>> ELSE [i \in 1..n |-> 0] \o Digits(a)

FeeConverted == pc = "done" /\ op = "convert_fee"

-----------------------------------------------------------------------------
(* Properties of get_txn_by_hash and get_block_by_hash (Spec) *)

\* the call returned after a response was fetched
Answered(name) == pc = "done" /\ op = name /\ steps /= <<>>

HashMismatch ==
    IF op = "get_txn_by_hash" THEN Err("received incorrect transaction")
    ELSE Err("received incorrect block")

\* C5: when the hash of the fetched response differs from the requested hash
\* the call fails with the hash mismatch error before anything is decoded, and
\* every TxnInfo or BlockInfo returned carries the requested hash.
C5_HashIntegrity ==
    (pc = "done" /\ steps /= <<>>) =>
        /\ response.hash /= hash =>
              (result = HashMismatch /\ steps = <<"hash_check">>)
        /\ IsOk(result) => result.val.hash = hash

\* a response with another hash whose transaction would decode to a TxnInfo
C5_Witness ==
    /\ Answered("get_txn_by_hash")
    /\ response.hash /= hash
    /\ IsOk(decode_txn(hash, response).res)
    /\ result = Err("received incorrect transaction")

\* C7 as stated: for a fetched transaction whose hash matches, get_txn_by_hash
\* returns a TxnInfo or a typed error; no input makes it panic.
C7_TypedFailureTotality ==
    (Answered("get_txn_by_hash") /\ response.hash = hash) =>
        (IsOk(result) \/ IsErr(result))

RECURSIVE TotalNormalizedFee(_)
TotalNormalizedFee(coins) ==
    IF coins = <<>> THEN Zero
    ELSE BigAdd(convert_fee(Head(coins)).val, TotalNormalizedFee(Tail(coins)))

\* C8: every TxnInfo returned has gasPrice = max(1, floor(total / gasLimit)),
\* total the sum of convert_fee over the fee coins and gasLimit the declared
\* fee gas limit, and receipt.effectiveGasPrice = gasPrice.
C8_GasPrice ==
    (Answered("get_txn_by_hash") /\ IsOk(result)) =>
        LET total == TotalNormalizedFee(response.tx.fee_amount)
            g == FromNat(response.tx.gas_limit)
            p == result.val.gas_price
        IN  /\ g /= Zero
            /\ BigLeq(One, p)
            /\ IF BigLess(total, g) THEN p = One
               ELSE /\ BigLeq(BigMul(p, g), total)
                    /\ BigLess(total, BigMul(BigAdd(p, One), g))
            /\ result.val.receipt.effective_gas_price = p

\* gas limit 100 and a total fee of 0 give the gas price 1
C8_Witness ==
    /\ Answered("get_txn_by_hash")
    /\ IsOk(result)
    /\ response.tx.gas_limit = 100
    /\ TotalNormalizedFee(response.tx.fee_amount) = Zero
    /\ result.val.gas_price = One
    /\ result.val.receipt.effective_gas_price = One

StepOrder ==
    <<"hash_check", "from_bytes", "contract", "sender_and_nonce",
      "report_unsupported_denominations", "gas_price">>

IsPrefix(s, t) == Len(s) <= Len(t) /\ SubSeq(t, 1, Len(s)) = s

ContractFault == Cardinality({i \in 1..Len(response.tx.messages) :
    response.tx.messages[i].type_url = MSG_EXECUTE_CONTRACT_TYPE_URL}) /= 1
SignerUnresolvable == ~IsOk(sender_and_nonce(response.tx))
NonNativeFeeCoin ==
    \E i \in 1..Len(response.tx.fee_amount) :
        response.tx.fee_amount[i].denom /= conf.native_denom
UnsupportedFeeDenomination ==
    Err("CustomError: transaction contains fees in unsupported denominations")

\* C10: get_txn_by_hash runs hash check, decode, contract, sender/nonce, fee
\* denominations, gas price in this order and returns the error of the first
\* failing step without running the later ones: a contract-message fault wins
\* over an unresolvable signer, and an unresolvable signer wins over a
\* non-native fee coin.
C10_ErrorPrecedence ==
    Answered("get_txn_by_hash") =>
        /\ IsPrefix(steps, StepOrder)
        /\ IsOk(result) => steps = StepOrder
        /\ (IsErr(result) /\ steps[Len(steps)] = "contract") =>
              result = contract(response.tx, hash)
        /\ (IsErr(result) /\ steps[Len(steps)] = "sender_and_nonce") =>
              (result = sender_and_nonce(response.tx)
               /\ IsOk(contract(response.tx, hash)))
        /\ (IsErr(result) /\ steps[Len(steps)] = "report_unsupported_denominations") =>
              (result = UnsupportedFeeDenomination
               /\ IsOk(contract(response.tx, hash))
               /\ ~SignerUnresolvable)
        /\ (response.hash = hash /\ response.decodes) =>
              /\ (ContractFault /\ SignerUnresolvable) =>
                    (result = contract(response.tx, hash)
                     /\ steps = SubSeq(StepOrder, 1, 3))
              /\ (~ContractFault /\ IsOk(contract(response.tx, hash))
                  /\ SignerUnresolvable /\ NonNativeFeeCoin) =>
                    (result = sender_and_nonce(response.tx)
                     /\ result /= UnsupportedFeeDenomination
                     /\ steps = SubSeq(StepOrder, 1, 4))

\* an unresolvable signer together with a non-native fee coin
C10_Witness ==
    /\ Answered("get_txn_by_hash")
    /\ response.hash = hash
    /\ response.decodes
    /\ IsOk(contract(response.tx, hash))
    /\ SignerUnresolvable
    /\ NonNativeFeeCoin
    /\ ~IsOk(report_unsupported_denominations(response.tx, hash))
    /\ result = sender_and_nonce(response.tx)

====
